---------------------------- MODULE Spec2Model ----------------------------
(***************************************************************************)
(* The "Ask" retrieval pipeline of the ai-catalog UI.                      *)
(*                                                                         *)
(* The repository holds three implementations of the /api/ask handler:     *)
(*   A  src/ui/src/pages/api/ask.ts  lines 91-245  (exact + semantic,      *)
(*      merged by dedupe, always answered by the chat model)               *)
(*   B  src/ui/src/pages/api/ask.ts  lines 456-609 (exact + semantic on a  *)
(*      pooled client, optional LLM answer)                                *)
(*   F  src/unnamed/part_004         lines 138-362 (search variations,     *)
(*      semantic search only as a fallback, optional LLM answer)           *)
(* One request at a time is taken through the handler that serves it, one  *)
(* action per stretch of code between two awaits.  The embeddings table,   *)
(* the embedding provider and the chat provider are the environment: the   *)
(* table is a fixed set of rows, a query or a provider call either answers *)
(* or fails.                                                               *)
(*                                                                         *)
(* Strings that the code inspects (the question, a row's text_chunk) are   *)
(* sequences of one-character strings.  Dataset ids and answers are atoms. *)
(* A primary key is a one-digit number, so that the text order of ORDER BY *)
(* pk is the numeric order.                                                *)
(***************************************************************************)
EXTENDS Integers, Sequences, FiniteSets, TLC

(***************************************************************************)
(* Bounds of the model.                                                    *)
(***************************************************************************)
NPk == 6
MaxQVec == 2

(***************************************************************************)
(* Program constants.                                                      *)
(***************************************************************************)
MergeCap == 10
DefaultExactLimit == 3
MaxExactLimit == 10
DefaultKSem == 8
MaxKSem == 25
BDefaultK == 5
BMaxK == 50
BMinContext == 3
FDefaultK == 5
FMaxK == 50
FMinVariation == 2
FMaxVariation == 100
FSanitizeMax == 1000
FSplitMinLen == 10

NULL == "NULL"
DEMO_DATASET_ID == "ds1"

IDontKnow == "I don't know."
FNoInfo == "I couldn't find any relevant information about this in the available data."
FLlmError == "I encountered an error while generating the response."
LlmText == "llm text"
NoAnswer == "undefined"

Min(a, b) == IF a < b THEN a ELSE b
Max(a, b) == IF a > b THEN a ELSE b
Abs(a) == IF a < 0 THEN 0 - a ELSE a
Take(s, n) == SubSeq(s, 1, Min(n, Len(s)))

(***************************************************************************)
(* Characters and strings.                                                 *)
(***************************************************************************)
Letters == {"a", "b", "z", "A", "B"}
Digits == {"4"}
Lower(c) == CASE c = "A" -> "a" [] c = "B" -> "b" [] OTHER -> c

RECURSIVE TrimLeft(_)
TrimLeft(s) == IF s # <<>> /\ Head(s) = " " THEN TrimLeft(Tail(s)) ELSE s

RECURSIVE TrimRight(_)
TrimRight(s) ==
    IF s # <<>> /\ s[Len(s)] = " " THEN TrimRight(SubSeq(s, 1, Len(s) - 1)) ELSE s

\* String.prototype.trim
Trim(s) == TrimRight(TrimLeft(s))

\* s.toLowerCase()
ToLowerCase(s) == [i \in 1..Len(s) |-> Lower(s[i])]

\* s.replace(/[^\p{L}\p{N}\s]/gu, " ")
StripPunct(s) ==
    [i \in 1..Len(s) |-> IF s[i] \in Letters \cup Digits \cup {" "} THEN s[i] ELSE " "]

\* s.replace(/\s+/g, " ")
RECURSIVE CollapseWs(_)
CollapseWs(s) ==
    IF Len(s) < 2 THEN s
    ELSE IF s[1] = " " /\ s[2] = " " THEN CollapseWs(Tail(s))
    ELSE <<s[1]>> \o CollapseWs(Tail(s))

simplifyForIlike(s) == Trim(CollapseWs(StripPunct(ToLowerCase(s))))

\* term.replace(/-/g, r) for a replacement r of zero or one character
RECURSIVE ReplaceHyphen(_, _)
ReplaceHyphen(s, r) ==
    IF s = <<>> THEN <<>>
    ELSE (IF Head(s) = "-" THEN r ELSE <<Head(s)>>) \o ReplaceHyphen(Tail(s), r)

\* term.split('-')
RECURSIVE SplitHyphen(_)
SplitHyphen(s) ==
    IF \A i \in 1..Len(s) : s[i] # "-" THEN <<s>>
    ELSE LET i == CHOOSE j \in 1..Len(s) : s[j] = "-" /\ \A m \in 1..(j - 1) : s[m] # "-"
         IN  <<SubSeq(s, 1, i - 1)>> \o SplitHyphen(SubSeq(s, i + 1, Len(s)))

\* [...new Set(variations)]: first occurrences, in order
RECURSIVE Unique(_)
Unique(s) ==
    IF s = <<>> THEN <<>>
    ELSE LET init == Unique(SubSeq(s, 1, Len(s) - 1))
             last == s[Len(s)]
         IN  IF \E i \in 1..Len(init) : init[i] = last THEN init ELSE Append(init, last)

generateSearchVariations(term) ==
    LET hasHyphen == \E i \in 1..Len(term) : term[i] = "-"
        v1 == <<term>> \o
              (IF hasHyphen
               THEN <<ReplaceHyphen(term, <<"_">>), ReplaceHyphen(term, <<" ">>),
                      ReplaceHyphen(term, <<>>)>>
               ELSE <<>>)
        parts == SplitHyphen(term)
        v2 == IF Len(term) > FSplitMinLen /\ Len(parts) > 1
              THEN <<parts[1], parts[2]>> \o (IF Len(parts) > 2 THEN <<parts[3]>> ELSE <<>>)
              ELSE <<>>
    IN  Unique(v1 \o v2)

\* text ILIKE '%' || pat || '%': a case-insensitive substring match in which
\* an underscore of the pattern stands for any one character
ILike(text, pat) ==
    \E o \in 0..(Len(text) - Len(pat)) :
        \A i \in 1..Len(pat) :
            pat[i] = "_" \/ Lower(text[o + i]) = Lower(pat[i])


(***************************************************************************)
(* The embeddings table: one row per (dataset_id, pk), the key of the      *)
(* table (the inserts are ON CONFLICT (dataset_id, pk) DO NOTHING).  The   *)
(* embedding of a row and of a query is a point on a line, and the         *)
(* distance operators are computed on these points.                        *)
(***************************************************************************)
Datasets == {"ds1", "ds2"}
DsIdx(d) == IF d = "ds1" THEN 1 ELSE 2
Texts == << <<"a", "_", "b">>, <<"A", "b", " ", "4">>, <<"a", " ", "b", "4">> >>
TextOf(d, p) == Texts[((p + DsIdx(d)) % 3) + 1]
EmbOf(d, p) == p + NPk * (DsIdx(d) - 1)

Embeddings ==
    { [dataset_id |-> d, pk |-> p, text_chunk |-> TextOf(d, p), embedding |-> EmbOf(d, p)] :
        d \in Datasets, p \in 1..NPk }

\* WHERE ($1::text IS NULL OR dataset_id = $1)
InScope(r, ds) == ds = NULL \/ r.dataset_id = ds

\* embedding <=> qvec (cosine distance) and embedding <#> qvec (negative
\* inner product), on the line
CosineDistance(e, qv) == Abs(e - qv)
NegInnerProduct(e, qv) == 0 - (e * qv)

\* The place of a row among rows that the ORDER BY leaves tied: the store
\* may return them in either order.
Ord(r) == 10 * DsIdx(r.dataset_id) + r.pk
TiePart(r, asc) == IF asc THEN Ord(r) ELSE 100 - Ord(r)

RECURSIVE SortByKey(_, _)
SortByKey(S, kf) ==
    IF S = {} THEN <<>>
    ELSE LET m == CHOOSE x \in S : \A y \in S : kf[x] <= kf[y]
         IN  <<m>> \o SortByKey(S \ {m}, kf)

RowDB(r, dist) ==
    [dataset_id |-> r.dataset_id, pk |-> r.pk, text_chunk |-> r.text_chunk, distance |-> dist]

\* SELECT ... WHERE scope AND text_chunk ILIKE '%' || $2 || '%' ORDER BY pk LIMIT $3
pgExact(phrase, ds, limit, asc) ==
    LET S == {r \in Embeddings : InScope(r, ds) /\ ILike(r.text_chunk, phrase)}
        sorted == SortByKey(S, [r \in S |-> 1000 * r.pk + TiePart(r, asc)])
    IN  [i \in 1..Min(limit, Len(sorted)) |-> RowDB(sorted[i], 0)]

\* The same query without ORDER BY (the fallback handler): any order
pgExactUnordered(phrase, ds, limit, asc) ==
    LET S == {r \in Embeddings : InScope(r, ds) /\ ILike(r.text_chunk, phrase)}
        sorted == SortByKey(S, [r \in S |-> TiePart(r, asc)])
    IN  [i \in 1..Min(limit, Len(sorted)) |-> RowDB(sorted[i], 0)]

\* SELECT ..., (embedding <=> qvec) AS distance ... ORDER BY embedding <=> qvec LIMIT $3
pgSemantic(qv, ds, limit, asc) ==
    LET S == {r \in Embeddings : InScope(r, ds)}
        sorted == SortByKey(S, [r \in S |->
                      1000 * CosineDistance(r.embedding, qv) + TiePart(r, asc)])
    IN  [i \in 1..Min(limit, Len(sorted)) |->
            RowDB(sorted[i], CosineDistance(sorted[i].embedding, qv))]

\* The same with the <#> operator (handler B)
pgSemanticInner(qv, ds, limit, asc) ==
    LET S == {r \in Embeddings : InScope(r, ds)}
        sorted == SortByKey(S, [r \in S |->
                      1000 * NegInnerProduct(r.embedding, qv) + TiePart(r, asc)])
    IN  [i \in 1..Min(limit, Len(sorted)) |->
            RowDB(sorted[i], NegInnerProduct(sorted[i].embedding, qv))]

(***************************************************************************)
(* Helpers of handler A.                                                   *)
(***************************************************************************)
PreviewLen == 200

\* r.text_chunk.length > 200 ? r.text_chunk.slice(0, 200) + "…" : r.text_chunk
Preview(text) ==
    IF Len(text) > PreviewLen THEN SubSeq(text, 1, PreviewLen) \o <<"...">> ELSE text

clampInt(n, min, max) == Max(min, Min(max, n))

shape(rows) ==
    [i \in 1..Len(rows) |->
        [datasetId |-> rows[i].dataset_id, pk |-> rows[i].pk, full |-> rows[i].text_chunk,
         preview |-> Preview(rows[i].text_chunk), distance |-> rows[i].distance]]

previewOnly(hits) ==
    [i \in 1..Len(hits) |->
        [datasetId |-> hits[i].datasetId, pk |-> hits[i].pk,
         preview |-> hits[i].preview, distance |-> hits[i].distance]]

HitKey(h) == <<h.datasetId, h.pk>>

\* The loop of dedupe: out grows by the first hit of each key and the loop
\* breaks once out holds maxOut hits
RECURSIVE dedupeLoop(_, _, _, _)
dedupeLoop(hits, seen, out, maxOut) ==
    IF hits = <<>> THEN out
    ELSE LET h == Head(hits)
         IN  IF HitKey(h) \in seen THEN dedupeLoop(Tail(hits), seen, out, maxOut)
             ELSE IF Len(out) + 1 >= maxOut THEN Append(out, h)
             ELSE dedupeLoop(Tail(hits), seen \cup {HitKey(h)}, Append(out, h), maxOut)

\* dedupe without the seen set: the first maxOut hits, duplicates included
dedupe_NoSeen(hits, maxOut) == Take(hits, maxOut)

\* dedupe whose loop breaks one hit late (out.length > maxOut)
dedupe_BreakLate(hits, maxOut) == dedupeLoop(hits, {}, <<>>, maxOut + 1)

dedupe(hits, maxOut) == dedupeLoop(hits, {}, <<>>, maxOut)

\* dedupe([...semHits, ...exactHits], 10)
MergeA(exactHits, semHits) == dedupe(semHits \o exactHits, MergeCap)

(***************************************************************************)
(* The state of one request.                                               *)
(***************************************************************************)
VARIABLES
    handler,     \* the implementation serving the request: "A", "B", "F"
    pc,          \* where the handler stands
    req,         \* the request: method and body
    tieAsc,      \* how the store orders rows its ORDER BY leaves tied
    hasKey,      \* whether OPENAI_API_KEY is set (the openai client exists)
    qtext,       \* q / question / sanitizedQuestion
    scope,       \* datasetId / routedDatasetId
    kLex,        \* K_EXACT
    kSem,        \* K_SEM / k / topK
    exactRows,   \* exactRows / exactRes.rows / uniqueExactResults
    qvec,        \* the query embedding
    semRows,     \* semRows / semanticResRows
    merged,      \* merged / context / results
    pending,     \* F: the variations the loop has still to query
    allResults,  \* F: allResults
    calls,       \* how often each collaborator was called for this request
    faults,      \* how many of these calls failed
    response,    \* the response sent, status 0 while none is
    checkedOut,  \* pooled clients checked out and not released
    docs,        \* prompt building: the ranked rows, each with the length of its content
    prompt,      \* prompt building: what went into the prompt and what is cited
    limits,      \* limit clamping: the exactLimit and k of a body, and the limits
                 \* a handler makes of them
    store,       \* publishing: the committed rows of the embeddings table
    pub,         \* publishing: the state of each publish request
    uniqueKey    \* publishing: whether the table has a unique index on (dataset_id, pk)

askVars == <<handler, pc, req, tieAsc, hasKey, qtext, scope, kLex, kSem, exactRows, qvec,
             semRows, merged, pending, allResults, calls, faults, response, checkedOut>>
pubVars == <<store, pub, uniqueKey>>
promptVars == <<docs, prompt, limits, pubVars>>
vars == <<askVars, promptVars>>

\* no prompt built
NoPrompt == [by |-> "none", size |-> <<>>, included |-> <<>>, cited |-> {},
             chat |-> FALSE, status |-> 0, answer |-> "undefined"]

\* Numbers of the request body: absent, or an integer
Absent == [t |-> "absent", v |-> 0]
Num(n) == [t |-> "num", v |-> n]

\* a publish request that has not arrived
IdlePub ==
    [kind |-> "none", pc |-> "idle", ds |-> "ds1", chunks |-> {}, todo |-> {},
     target |-> {}, del |-> {}, ins |-> {}, inserted |-> 0, added |-> 0,
     open |-> FALSE, status |-> 0, label |-> "none", failedAt |-> "none", before |-> {}]

Procs == {1, 2}

NoPublish ==
    /\ store = {}
    /\ pub = [p \in Procs |-> IdlePub]
    /\ uniqueKey = TRUE

\* no limits made
NoLimits == [by |-> "none", exactLimit |-> Absent, k |-> Absent,
             lexical |-> Absent, semantic |-> Absent]

NoVec == [t |-> "null", v |-> 0]
NoCalls == [exact |-> 0, embed |-> 0, semantic |-> 0, chat |-> 0, stats |-> 0, dims |-> 0]
Fault(name) == faults' = [faults EXCEPT ![name] = @ + 1]
NoResponse ==
    [status |-> 0, answer |-> NoAnswer, exact |-> <<>>, semantic |-> <<>>, merged |-> <<>>]

(***************************************************************************)
(* The requests the model sends.                                           *)
(***************************************************************************)
Str(s) == [t |-> "str", v |-> s]
NotGiven == [t |-> "absent", v |-> <<>>]
NotAString == [t |-> "num", v |-> <<>>]

Questions ==
    { NotGiven, NotAString, Str(<<>>), Str(<<" ", " ">>), Str(<<"b">>),
      Str(<<"z", "z">>), Str(<<"a", "-", "b">>),
      Str(<<"a", "b", "-", "a", "b", "-", "a", "b", "-", "z", "z", "z">>) }

\* a question of 101 characters, sent to the handler that bounds the length
\* of what it searches
LongQuestion == Str([i \in 1..(FMaxVariation + 1) |-> "z"])
DatasetIds == {NULL, "all", "ds1", "ds3"}
KValues == {Absent, Num(0), Num(3), Num(30)}
ExactLimits == {Absent, Num(0), Num(1), Num(12)}

Request(m, qn, d, k, e, u) ==
    [method |-> m, question |-> qn, datasetId |-> d, k |-> k, exactLimit |-> e, useLlm |-> u]

AskInit ==
    /\ handler = "none"
    /\ pc = "idle"
    /\ req = Request("POST", NotGiven, NULL, Absent, Absent, FALSE)
    /\ tieAsc = TRUE
    /\ hasKey = TRUE
    /\ qtext = <<>>
    /\ scope = NULL
    /\ kLex = 0
    /\ kSem = 0
    /\ exactRows = <<>>
    /\ qvec = NoVec
    /\ semRows = <<>>
    /\ merged = <<>>
    /\ pending = <<>>
    /\ allResults = <<>>
    /\ calls = NoCalls
    /\ faults = NoCalls
    /\ response = NoResponse
    /\ checkedOut = 0

Init ==
    /\ AskInit
    /\ docs = <<>>
    /\ prompt = NoPrompt
    /\ limits = NoLimits
    /\ NoPublish

\* What every handler starts from when a request arrives
Fresh ==
    /\ qvec' = NoVec
    /\ exactRows' = <<>>
    /\ semRows' = <<>>
    /\ merged' = <<>>
    /\ pending' = <<>>
    /\ allResults' = <<>>
    /\ calls' = NoCalls
    /\ faults' = NoCalls

Respond(status, ans, ex, sem, mrg) ==
    /\ response' = [status |-> status, answer |-> ans, exact |-> ex, semantic |-> sem,
                    merged |-> mrg]
    /\ pc' = "done"

ErrorResponse(status) == Respond(status, NoAnswer, <<>>, <<>>, <<>>)

\* An await whose promise never settles: the collaborator does not reply and
\* the call carries no timeout, so the handler stays at the await
Hang == pc' = "waiting" /\ UNCHANGED response

(***************************************************************************)
(* Handler A: src/ui/src/pages/api/ask.ts, lines 91-245.                   *)
(***************************************************************************)
\* typeof qRaw === "string" ? qRaw.trim() : ""
QuestionA(qn) == IF qn.t = "str" THEN Trim(qn.v) ELSE <<>>

\* a string, not empty, not "all": the dataset; else null
DatasetA(d) == IF d # NULL /\ d # "all" THEN d ELSE NULL

\* clampInt(Number(body?.exactLimit ?? 3), 0, 10)
KExactA(e) == clampInt(IF e.t = "absent" THEN DefaultExactLimit ELSE e.v, 0, MaxExactLimit)

\* clampInt(Number(body?.k ?? 8), 1, 25)
KSemA(k) == clampInt(IF k.t = "absent" THEN DefaultKSem ELSE k.v, 1, MaxKSem)

A_Receive ==
    /\ pc = "idle"
    /\ \E m \in {"POST", "GET", "PUT"}, qn \in Questions, d \in DatasetIds,
          k \in KValues, e \in ExactLimits :
          req' = Request(m, qn, d, k, e, FALSE)
    /\ tieAsc' \in BOOLEAN
    /\ handler' = "A"
    /\ hasKey' = TRUE
    /\ Fresh
    /\ qtext' = QuestionA(req'.question)
    /\ scope' = DatasetA(req'.datasetId)
    /\ kLex' = KExactA(req'.exactLimit)
    /\ kSem' = KSemA(req'.k)
    /\ IF req'.method \notin {"POST", "GET"} THEN ErrorResponse(405)
       ELSE IF qtext' = <<>> THEN ErrorResponse(400)
       ELSE pc' = "A_exact" /\ response' = NoResponse
    /\ UNCHANGED checkedOut
    /\ UNCHANGED promptVars

\* EXACT ILIKE: pgExact throws when the query fails, and the handler's catch
\* answers 500
A_Exact ==
    /\ pc = "A_exact"
    /\ IF kLex > 0
       THEN \E out \in {"ok", "error", "silent"} :
              /\ calls' = [calls EXCEPT !.exact = @ + 1]
              /\ CASE out = "ok" ->
                      /\ exactRows' = pgExact(simplifyForIlike(qtext), scope, kLex, tieAsc)
                      /\ pc' = "A_embed"
                      /\ UNCHANGED <<response, faults>>
                   [] out = "error" ->
                      /\ ErrorResponse(500)
                      /\ Fault("exact")
                      /\ UNCHANGED exactRows
                   [] OTHER -> Hang /\ UNCHANGED <<exactRows, faults>>
       ELSE /\ exactRows' = <<>>
            /\ pc' = "A_embed"
            /\ UNCHANGED <<calls, faults, response>>
    /\ UNCHANGED <<handler, req, tieAsc, hasKey, qtext, scope, kLex, kSem, qvec, semRows,
                   merged, pending, allResults, checkedOut>>
    /\ UNCHANGED promptVars

\* EMBED QUERY of a handler that runs the lexical search again once it has
\* the embedding
A_Embed_LexicalAgain ==
    /\ pc = "A_embed"
    /\ calls' = [calls EXCEPT !.embed = @ + 1]
    /\ \E v \in 0..MaxQVec : qvec' = [t |-> "vec", v |-> v]
    /\ pc' = IF calls.embed = 0 THEN "A_exact" ELSE "A_semantic"
    /\ UNCHANGED <<handler, req, tieAsc, hasKey, qtext, scope, kLex, kSem, exactRows,
                   semRows, merged, pending, allResults, checkedOut, response, faults>>
    /\ UNCHANGED promptVars

\* EMBED QUERY: embedQuery throws on a reply that is not OK and on an
\* embedding that is not 1536 long.  The fetch is given no signal: whether a
\* missing reply ever ends the await is left to the runtime ("error" when it
\* does, "silent" when it does not).
A_Embed ==
    /\ pc = "A_embed"
    /\ calls' = [calls EXCEPT !.embed = @ + 1]
    /\ \E out \in {"ok", "error", "baddims", "silent"} :
          IF out = "ok"
          THEN /\ \E v \in 0..MaxQVec : qvec' = [t |-> "vec", v |-> v]
               /\ pc' = "A_semantic"
               /\ UNCHANGED <<response, faults>>
          ELSE IF out = "silent" THEN Hang /\ UNCHANGED <<qvec, faults>>
          ELSE /\ ErrorResponse(500)
               /\ Fault(IF out = "error" THEN "embed" ELSE "dims")
               /\ UNCHANGED qvec
    /\ UNCHANGED <<handler, req, tieAsc, hasKey, qtext, scope, kLex, kSem, exactRows,
                   semRows, merged, pending, allResults, checkedOut>>
    /\ UNCHANGED promptVars

\* SEMANTIC KNN, then SHAPE + MERGE and the answer without context
A_Semantic ==
    /\ pc = "A_semantic"
    /\ calls' = [calls EXCEPT !.semantic = @ + 1]
    /\ \E out \in {"ok", "error", "silent"} :
          CASE out = "ok" ->
               /\ semRows' = pgSemantic(qvec.v, scope, kSem, tieAsc)
               /\ merged' = MergeA(shape(exactRows), shape(semRows'))
               /\ IF merged' = <<>>
                  THEN Respond(200, IDontKnow, previewOnly(shape(exactRows)),
                               previewOnly(shape(semRows')), <<>>)
                  ELSE pc' = "A_chat" /\ UNCHANGED response
               /\ UNCHANGED faults
            [] out = "error" ->
               /\ ErrorResponse(500)
               /\ Fault("semantic")
               /\ UNCHANGED <<semRows, merged>>
            [] OTHER -> Hang /\ UNCHANGED <<semRows, merged, faults>>
    /\ UNCHANGED <<handler, req, tieAsc, hasKey, qtext, scope, kLex, kSem, exactRows,
                   qvec, pending, allResults, checkedOut>>
    /\ UNCHANGED promptVars

\* CHAT COMPLETION of a handler that sends the request again after a first
\* failure
A_Chat_Retry ==
    /\ pc = "A_chat"
    /\ calls' = [calls EXCEPT !.chat = @ + 1]
    /\ \E out \in {"text", "error"} :
          IF out = "error"
          THEN /\ Fault("chat")
               /\ IF calls.chat = 0 THEN UNCHANGED <<pc, response>> ELSE ErrorResponse(500)
          ELSE /\ Respond(200, LlmText, previewOnly(shape(exactRows)),
                          previewOnly(shape(semRows)), previewOnly(merged))
               /\ UNCHANGED faults
    /\ UNCHANGED <<handler, req, tieAsc, hasKey, qtext, scope, kLex, kSem, exactRows,
                   qvec, semRows, merged, pending, allResults, checkedOut>>
    /\ UNCHANGED promptVars

\* CHAT COMPLETION: chatComplete throws on a reply that is not OK; an empty
\* content becomes "I don't know."
A_Chat ==
    /\ pc = "A_chat"
    /\ calls' = [calls EXCEPT !.chat = @ + 1]
    /\ \E out \in {"text", "empty", "error", "silent"} :
          IF out = "error" THEN ErrorResponse(500) /\ Fault("chat")
          ELSE IF out = "silent" THEN Hang /\ UNCHANGED faults
          ELSE /\ Respond(200, IF out = "text" THEN LlmText ELSE IDontKnow,
                          previewOnly(shape(exactRows)), previewOnly(shape(semRows)),
                          previewOnly(merged))
               /\ UNCHANGED faults
    /\ UNCHANGED <<handler, req, tieAsc, hasKey, qtext, scope, kLex, kSem, exactRows,
                   qvec, semRows, merged, pending, allResults, checkedOut>>
    /\ UNCHANGED promptVars

(***************************************************************************)
(* Handler B: src/ui/src/pages/api/ask.ts, lines 456-609.                  *)
(***************************************************************************)
\* typeof body?.question === "string" && body.question.trim() ? body.question.trim() : ""
QuestionB(qn) == IF qn.t = "str" THEN Trim(qn.v) ELSE <<>>

\* a non-empty string is the dataset ("all" too), anything else null
DatasetB(d) == d

\* Number.isFinite(body?.k) && body.k > 0 && body.k <= 50 ? Number(body.k) : 5
KB(k) == IF k.t = "num" /\ k.v > 0 /\ k.v <= BMaxK THEN k.v ELSE BDefaultK

\* the shape of handler B: no full text, and a distance that is not finite is 0
shapeB(rows) ==
    [i \in 1..Len(rows) |->
        [datasetId |-> rows[i].dataset_id, pk |-> rows[i].pk,
         preview |-> Preview(rows[i].text_chunk), distance |-> rows[i].distance]]

\* .filter(seen => h => first hit of its dataset|pk key)
RECURSIVE FilterFirstSeen(_, _)
FilterFirstSeen(hits, seen) ==
    IF hits = <<>> THEN <<>>
    ELSE IF HitKey(Head(hits)) \in seen THEN FilterFirstSeen(Tail(hits), seen)
    ELSE <<Head(hits)>> \o FilterFirstSeen(Tail(hits), seen \cup {HitKey(Head(hits))})

\* [...exact, ...semantic].filter(...).slice(0, Math.max(3, k))
ContextB(exact, semantic, k) ==
    Take(FilterFirstSeen(exact \o semantic, {}), Max(BMinContext, k))

\* A vector of the wrong length makes the distance operator fail on the
\* first row it is applied to
VectorQueryMayAnswer(qv, ds) ==
    qv.t = "vec" \/ \A r \in Embeddings : ~InScope(r, ds)

B_Receive ==
    /\ pc = "idle"
    /\ \E m \in {"POST", "GET"}, qn \in Questions, d \in DatasetIds, k \in KValues,
          u \in BOOLEAN :
          req' = Request(m, qn, d, k, Absent, u)
    /\ tieAsc' \in BOOLEAN
    /\ hasKey' \in BOOLEAN
    /\ handler' = "B"
    /\ Fresh
    /\ qtext' = QuestionB(req'.question)
    /\ scope' = DatasetB(req'.datasetId)
    /\ kLex' = KB(req'.k)
    /\ kSem' = KB(req'.k)
    /\ IF req'.method # "POST" THEN ErrorResponse(405)
       ELSE IF qtext' = <<>> THEN ErrorResponse(400)
       ELSE pc' = "B_connect" /\ response' = NoResponse
    /\ UNCHANGED checkedOut
    /\ UNCHANGED promptVars

\* const client = await pool.connect(): outside the try, a failure leaves the
\* handler as an exception and the framework answers 500.  The pool is made
\* without connectionTimeoutMillis: a connection that never comes is awaited
\* without bound.
B_Connect ==
    /\ pc = "B_connect"
    /\ \E out \in {"ok", "error", "silent"} :
          CASE out = "ok" ->
               /\ checkedOut' = checkedOut + 1
               /\ pc' = "B_exact"
               /\ UNCHANGED response
            [] out = "error" ->
               /\ ErrorResponse(500)
               /\ UNCHANGED checkedOut
            [] OTHER -> Hang /\ UNCHANGED checkedOut
    /\ UNCHANGED <<handler, req, tieAsc, hasKey, qtext, scope, kLex, kSem, exactRows,
                   qvec, semRows, merged, pending, allResults, calls, faults>>
    /\ UNCHANGED promptVars

\* a catch without the finally
B_Fail_NoRelease ==
    /\ ErrorResponse(400)
    /\ UNCHANGED checkedOut

\* catch: 400, finally: client.release()
B_Fail ==
    /\ ErrorResponse(400)
    /\ checkedOut' = checkedOut - 1

\* EXACT (substring)
B_Exact ==
    /\ pc = "B_exact"
    /\ calls' = [calls EXCEPT !.exact = @ + 1]
    /\ \E out \in {"ok", "error", "silent"} :
          CASE out = "ok" ->
               /\ exactRows' = pgExact(qtext, scope, kLex, tieAsc)
               /\ pc' = "B_embed"
               /\ UNCHANGED <<response, checkedOut, faults>>
            [] out = "error" ->
               /\ B_Fail
               /\ Fault("exact")
               /\ UNCHANGED exactRows
            [] OTHER -> Hang /\ UNCHANGED <<exactRows, checkedOut, faults>>
    /\ UNCHANGED <<handler, req, tieAsc, hasKey, qtext, scope, kLex, kSem, qvec, semRows,
                   merged, pending, allResults>>
    /\ UNCHANGED promptVars

\* Shape output, the optional LLM answer and the response: what the handler
\* does once retrieval is over, up to the chat call or the response
B_AfterRetrieval(sem) ==
    IF req.useLlm /\ hasKey
    THEN /\ merged' = ContextB(shapeB(exactRows), shapeB(sem), kSem)
         /\ pc' = "B_chat"
         /\ UNCHANGED <<response, checkedOut>>
    ELSE /\ Respond(200, NoAnswer, shapeB(exactRows), shapeB(sem), <<>>)
         /\ checkedOut' = checkedOut - 1
         /\ UNCHANGED merged

\* embedText: null without a client; a failure is caught and logged.  The
\* call goes through the OpenAI client, which ends a call without reply by
\* its own timeout: that is the outcome "error"
B_Embed ==
    /\ pc = "B_embed"
    /\ IF hasKey
       THEN /\ calls' = [calls EXCEPT !.embed = @ + 1]
            /\ \E out \in {"ok", "error", "baddims"} :
                  IF out = "error"
                  THEN /\ B_AfterRetrieval(<<>>)
                       /\ Fault("embed")
                       /\ UNCHANGED qvec
                  ELSE /\ \E v \in 0..MaxQVec :
                             qvec' = [t |-> IF out = "ok" THEN "vec" ELSE "badvec", v |-> v]
                       /\ pc' = "B_semantic"
                       /\ faults' = IF out = "ok" THEN faults
                                    ELSE [faults EXCEPT !.dims = @ + 1]
                       /\ UNCHANGED <<response, checkedOut, merged>>
       ELSE /\ B_AfterRetrieval(<<>>)
            /\ UNCHANGED <<calls, faults, qvec>>
    /\ UNCHANGED <<handler, req, tieAsc, hasKey, qtext, scope, kLex, kSem, exactRows,
                   semRows, pending, allResults>>
    /\ UNCHANGED promptVars

\* SEMANTIC (pgvector), ordered by <#>
B_Semantic ==
    /\ pc = "B_semantic"
    /\ calls' = [calls EXCEPT !.semantic = @ + 1]
    /\ \E out \in {o \in {"ok", "error", "silent"} :
                        o = "ok" => VectorQueryMayAnswer(qvec, scope)} :
          CASE out = "ok" ->
               /\ semRows' = pgSemanticInner(qvec.v, scope, kSem, tieAsc)
               /\ B_AfterRetrieval(semRows')
               /\ UNCHANGED faults
            [] out = "error" ->
               /\ B_Fail
               /\ Fault("semantic")
               /\ UNCHANGED <<semRows, merged>>
            [] OTHER -> Hang /\ UNCHANGED <<semRows, merged, checkedOut, faults>>
    /\ UNCHANGED <<handler, req, tieAsc, hasKey, qtext, scope, kLex, kSem, exactRows,
                   qvec, pending, allResults>>
    /\ UNCHANGED promptVars

\* openai.chat.completions.create in its own try: a failure is logged and
\* the response carries no answer; so does an empty content
B_Chat ==
    /\ pc = "B_chat"
    /\ calls' = [calls EXCEPT !.chat = @ + 1]
    /\ \E out \in {"text", "empty", "error"} :
          /\ Respond(200, IF out = "text" THEN LlmText ELSE NoAnswer,
                     shapeB(exactRows), shapeB(semRows), <<>>)
          /\ faults' = IF out = "error" THEN [faults EXCEPT !.chat = @ + 1] ELSE faults
    /\ checkedOut' = checkedOut - 1
    /\ UNCHANGED <<handler, req, tieAsc, hasKey, qtext, scope, kLex, kSem, exactRows,
                   qvec, semRows, merged, pending, allResults>>
    /\ UNCHANGED promptVars

(***************************************************************************)
(* Handler F: src/unnamed/part_004, lines 138-362.  PG_URL is set (the     *)
(* pool exists); the openai client exists when the key is set.             *)
(***************************************************************************)
\* input.trim().slice(0, 1000)
sanitizeInput(input) == Take(Trim(input), FSanitizeMax)

\* !question || typeof question !== "string"
MissingQuestionF(qn) == qn.t # "str" \/ qn.v = <<>>

\* Math.max(1, Math.min(k || 5, 50))
TopKF(k) == Max(1, Min(IF k.t = "absent" \/ k.v = 0 THEN FDefaultK ELSE k.v, FMaxK))

\* no dataset, "ALL" in any case, or "*": the demo dataset; else the dataset
RoutedDatasetF(d) == IF d = NULL \/ d = "all" \/ d = "*" THEN DEMO_DATASET_ID ELSE d

RowKey(r) == <<r.dataset_id, r.pk>>

\* the filter without the slice: every first occurrence, however many
UniqueExactResults_NoSlice(all, topK) ==
    LET RECURSIVE keepAll(_, _)
        keepAll(i, seen) ==
            IF i > Len(all) THEN <<>>
            ELSE IF <<all[i].dataset_id, all[i].pk>> \in seen THEN keepAll(i + 1, seen)
            ELSE <<all[i]>> \o keepAll(i + 1, seen \cup {<<all[i].dataset_id, all[i].pk>>})
    IN  keepAll(1, {})

\* allResults.filter((result, index, self) => index === self.findIndex(same
\* dataset_id and pk)).slice(0, topK)
UniqueExactResults(all, topK) ==
    LET firstIdx(i) == CHOOSE j \in 1..Len(all) :
                           /\ RowKey(all[j]) = RowKey(all[i])
                           /\ \A m \in 1..(j - 1) : RowKey(all[m]) # RowKey(all[i])
        RECURSIVE keep(_)
        keep(i) == IF i > Len(all) THEN <<>>
                   ELSE (IF firstIdx(i) = i THEN <<all[i]>> ELSE <<>>) \o keep(i + 1)
    IN  Take(keep(1), topK)

\* results of the exact branch: distance 0; of the semantic branch: the
\* distance of the row
NeighborsF(rows) ==
    [i \in 1..Len(rows) |->
        [dataset_id |-> rows[i].dataset_id, pk |-> rows[i].pk,
         text_chunk |-> rows[i].text_chunk, distance |-> rows[i].distance]]

F_Receive ==
    /\ pc = "idle"
    /\ \E m \in {"POST", "GET"}, qn \in Questions \cup {LongQuestion}, d \in DatasetIds, k \in KValues,
          u \in BOOLEAN :
          req' = Request(m, qn, d, k, Absent, u)
    /\ tieAsc' \in BOOLEAN
    /\ hasKey' \in BOOLEAN
    /\ handler' = "F"
    /\ Fresh
    /\ qtext' = IF req'.question.t = "str" THEN sanitizeInput(req'.question.v) ELSE <<>>
    /\ scope' = RoutedDatasetF(req'.datasetId)
    /\ kLex' = TopKF(req'.k)
    /\ kSem' = TopKF(req'.k)
    /\ IF ~hasKey' THEN ErrorResponse(500)
       ELSE IF req'.method # "POST" THEN ErrorResponse(405)
       ELSE IF MissingQuestionF(req'.question) THEN ErrorResponse(400)
       ELSE pc' = "F_connect" /\ response' = NoResponse
    /\ UNCHANGED checkedOut
    /\ UNCHANGED promptVars

\* const client = await pool.connect(), inside the outer try; the pool has
\* connectionTimeoutMillis 2000, so a connection that never comes is a failure
F_Connect ==
    /\ pc = "F_connect"
    /\ \E ok \in BOOLEAN :
          IF ok
          THEN /\ checkedOut' = checkedOut + 1
               /\ pc' = "F_stats"
               /\ UNCHANGED response
          ELSE /\ ErrorResponse(500)
               /\ UNCHANGED checkedOut
    /\ UNCHANGED <<handler, req, tieAsc, hasKey, qtext, scope, kLex, kSem, exactRows,
                   qvec, semRows, merged, pending, allResults, calls, faults>>
    /\ UNCHANGED promptVars

\* The two COUNT(*) queries, then STEP 1: a failure leaves through finally
\* (release) to the outer catch (500)
F_Stats ==
    /\ pc = "F_stats"
    /\ calls' = [calls EXCEPT !.stats = @ + 1]
    /\ \E out \in {"ok", "error", "silent"} :
          CASE out = "ok" ->
               /\ pending' = generateSearchVariations(qtext)
               /\ pc' = "F_exact"
               /\ UNCHANGED <<response, checkedOut, faults>>
            [] out = "error" ->
               /\ ErrorResponse(500)
               /\ Fault("stats")
               /\ checkedOut' = checkedOut - 1
               /\ UNCHANGED pending
            [] OTHER -> Hang /\ UNCHANGED <<pending, checkedOut, faults>>
    /\ UNCHANGED <<handler, req, tieAsc, hasKey, qtext, scope, kLex, kSem, exactRows,
                   qvec, semRows, merged, allResults>>
    /\ UNCHANGED promptVars

\* STEP 4 and the response: the answer without results, or on to the chat
\* call; finally releases the client
F_Step4(results) ==
    /\ merged' = results
    /\ IF req.useLlm /\ results # <<>>
       THEN /\ pc' = "F_chat"
            /\ UNCHANGED <<response, checkedOut>>
       ELSE /\ Respond(200, IF req.useLlm THEN FNoInfo ELSE NoAnswer, <<>>, <<>>, results)
            /\ checkedOut' = checkedOut - 1

\* STEP 2: one turn of the loop over the variations; a query that fails is
\* logged and adds nothing.  After the last turn the duplicates are removed
\* and the handler goes on to the results or to the semantic fallback.
F_Exact ==
    /\ pc = "F_exact"
    /\ pending # <<>>
    /\ LET variation == Head(pending)
           queried == Len(variation) <= FMaxVariation /\ Len(variation) >= FMinVariation
       IN  \E out \in {o \in {"ok", "error", "silent"} : queried \/ o = "ok"} :
              /\ calls' = IF queried THEN [calls EXCEPT !.exact = @ + 1] ELSE calls
              /\ faults' = IF out = "error" THEN [faults EXCEPT !.exact = @ + 1] ELSE faults
              /\ allResults' =
                    IF queried /\ out = "ok"
                    THEN allResults \o pgExactUnordered(variation, scope, kLex, tieAsc)
                    ELSE allResults
              /\ IF out = "silent"
                 THEN /\ Hang
                      /\ UNCHANGED <<pending, exactRows, merged, checkedOut>>
                 ELSE /\ pending' = Tail(pending)
                      /\ IF pending' # <<>>
                         THEN UNCHANGED <<pc, exactRows, merged, response, checkedOut>>
                         ELSE /\ exactRows' = UniqueExactResults(allResults', kLex)
                              /\ IF exactRows' # <<>>
                                 THEN F_Step4(NeighborsF(exactRows'))
                                 ELSE /\ pc' = "F_embed"
                                      /\ UNCHANGED <<merged, response, checkedOut>>
    /\ UNCHANGED <<handler, req, tieAsc, hasKey, qtext, scope, kLex, kSem, qvec, semRows>>
    /\ UNCHANGED promptVars

\* STEP 3 of a handler without the try around the fallback: a failure of
\* the embedding call goes to the outer catch
F_Embed_Throws ==
    /\ pc = "F_embed"
    /\ calls' = [calls EXCEPT !.embed = @ + 1]
    /\ \E out \in {"ok", "error"} :
          IF out = "error"
          THEN /\ ErrorResponse(500)
               /\ checkedOut' = checkedOut - 1
               /\ Fault("embed")
               /\ UNCHANGED <<qvec, merged>>
          ELSE /\ \E v \in 0..MaxQVec : qvec' = [t |-> "vec", v |-> v]
               /\ pc' = "F_semantic"
               /\ UNCHANGED <<merged, response, checkedOut, faults>>
    /\ UNCHANGED <<handler, req, tieAsc, hasKey, qtext, scope, kLex, kSem, exactRows,
                   semRows, pending, allResults>>
    /\ UNCHANGED promptVars

\* STEP 3: openai.embeddings.create, inside the try of the fallback
F_Embed ==
    /\ pc = "F_embed"
    /\ calls' = [calls EXCEPT !.embed = @ + 1]
    /\ \E out \in {"ok", "error", "baddims"} :
          IF out = "error"
          THEN /\ F_Step4(<<>>)
               /\ Fault("embed")
               /\ UNCHANGED qvec
          ELSE /\ \E v \in 0..MaxQVec :
                     qvec' = [t |-> IF out = "ok" THEN "vec" ELSE "badvec", v |-> v]
               /\ pc' = "F_semantic"
               /\ faults' = IF out = "ok" THEN faults ELSE [faults EXCEPT !.dims = @ + 1]
               /\ UNCHANGED <<merged, response, checkedOut>>
    /\ UNCHANGED <<handler, req, tieAsc, hasKey, qtext, scope, kLex, kSem, exactRows,
                   semRows, pending, allResults>>
    /\ UNCHANGED promptVars

\* the semantic query of the fallback: a failure is logged, results stay empty
F_Semantic ==
    /\ pc = "F_semantic"
    /\ calls' = [calls EXCEPT !.semantic = @ + 1]
    /\ \E out \in {o \in {"ok", "error", "silent"} :
                        o = "ok" => VectorQueryMayAnswer(qvec, scope)} :
          IF out = "silent"
          THEN Hang /\ UNCHANGED <<semRows, merged, checkedOut, faults>>
          ELSE /\ semRows' = IF out = "ok" THEN pgSemantic(qvec.v, scope, kSem, tieAsc)
                             ELSE <<>>
               /\ faults' = IF out = "ok" THEN faults
                            ELSE [faults EXCEPT !.semantic = @ + 1]
               /\ F_Step4(NeighborsF(semRows'))
    /\ UNCHANGED <<handler, req, tieAsc, hasKey, qtext, scope, kLex, kSem, exactRows,
                   qvec, pending, allResults>>
    /\ UNCHANGED promptVars

\* openai.chat.completions.create in its own try: a failure gives the error
\* text as the answer; an empty content gives no answer
F_Chat ==
    /\ pc = "F_chat"
    /\ calls' = [calls EXCEPT !.chat = @ + 1]
    /\ \E out \in {"text", "empty", "error"} :
          /\ Respond(200,
                     CASE out = "text" -> LlmText [] out = "empty" -> NoAnswer
                       [] OTHER -> FLlmError,
                     <<>>, <<>>, merged)
          /\ faults' = IF out = "error" THEN [faults EXCEPT !.chat = @ + 1] ELSE faults
    /\ checkedOut' = checkedOut - 1
    /\ UNCHANGED <<handler, req, tieAsc, hasKey, qtext, scope, kLex, kSem, exactRows,
                   qvec, semRows, merged, pending, allResults>>
    /\ UNCHANGED promptVars

(***************************************************************************)
(* The response is sent and the request's state is dropped: the next       *)
(* request starts from nothing but the pool.                               *)
(***************************************************************************)
Finish ==
    /\ pc = "done"
    /\ pc' = "idle"
    /\ handler' = "none"
    /\ req' = Request("POST", NotGiven, NULL, Absent, Absent, FALSE)
    /\ tieAsc' = TRUE
    /\ hasKey' = TRUE
    /\ qtext' = <<>>
    /\ scope' = NULL
    /\ kLex' = 0
    /\ kSem' = 0
    /\ Fresh
    /\ response' = NoResponse
    /\ UNCHANGED checkedOut
    /\ UNCHANGED promptVars

Next ==
    \/ A_Receive \/ A_Exact \/ A_Embed \/ A_Semantic \/ A_Chat
    \/ B_Receive \/ B_Connect \/ B_Exact \/ B_Embed \/ B_Semantic \/ B_Chat
    \/ F_Receive \/ F_Connect \/ F_Stats \/ F_Exact \/ F_Embed \/ F_Semantic \/ F_Chat
    \/ Finish

Spec == Init /\ [][Next]_vars

(***************************************************************************)
(* What the claims speak of.                                               *)
(***************************************************************************)
Range(seq) == {seq[i] : i \in 1..Len(seq)}
RowKeys(rows) == {RowKey(r) : r \in Range(rows)}
LexicalKeys == RowKeys(exactRows)
SemanticKeys == RowKeys(semRows)

\* merged holds hits (A, B) or neighbours (F)
MergedKeyAt(i) == IF handler = "F" THEN RowKey(merged[i]) ELSE HitKey(merged[i])
MergedKeys == {MergedKeyAt(i) : i \in 1..Len(merged)}

\* the keys of all evidence the response carries
ResponseKeys ==
    {HitKey(h) : h \in Range(response.exact) \cup Range(response.semantic)} \cup
    (IF handler = "F" THEN RowKeys(response.merged)
     ELSE {HitKey(h) : h \in Range(response.merged)})

\* the merge step of the request has run
MergeDoneA == handler = "A" /\ (pc = "A_chat" \/ calls.chat = 1 \/ response.status = 200)
MergeDone ==
    CASE handler = "A" -> MergeDoneA
      [] handler = "B" -> pc = "B_chat" \/ calls.chat = 1
      [] handler = "F" -> pc = "F_chat" \/ response.status = 200
      [] OTHER -> FALSE

\* the cap of the merge step of each handler
CapOf ==
    CASE handler = "A" -> MergeCap
      [] handler = "B" -> Max(BMinContext, kSem)
      [] OTHER -> kSem

\* answer generation is part of the request
GenerationAsked ==
    \/ handler = "A"
    \/ handler = "B" /\ req.useLlm /\ hasKey
    \/ handler = "F" /\ req.useLlm

\* the request is one the handler serves: its method is allowed and the
\* deployment is configured
Served ==
    /\ handler # "none"
    /\ hasKey
    /\ req.method = "POST" \/ (handler = "A" /\ req.method = "GET")

EmptyAfterTrim(qn) == qn.t # "str" \/ Trim(qn.v) = <<>>

C2_SharedRowKeepsLexicalCopy ==
    \A i \in 1..Len(merged) :
        MergedKeyAt(i) \in LexicalKeys \cap SemanticKeys => merged[i].distance = 0

(***************************************************************************)
(* C3: in the merged evidence every lexical hit stands before every        *)
(* semantic-only hit, and when the distinct lexical hits are at most the   *)
(* cap they are all in the merged evidence.                                *)
(***************************************************************************)
C3_LexicalFirstAndNeverCrowdedOut ==
    /\ \A i, j \in 1..Len(merged) :
          (MergedKeyAt(i) \in LexicalKeys /\ MergedKeyAt(j) \notin LexicalKeys) => i < j
    /\ (MergeDone /\ Cardinality(LexicalKeys) <= CapOf) => LexicalKeys \subseteq MergedKeys

(***************************************************************************)
(* C4: the merge of handler A truncates after deduplication: the merged    *)
(* evidence holds min(10, number of distinct keys of the lexical and the   *)
(* semantic hits) rows, so never more than 10.                             *)
(***************************************************************************)
C4_MergedLengthIsMinOfCapAndDistinct ==
    MergeDoneA =>
        /\ Len(merged) = Min(MergeCap, Cardinality(LexicalKeys \cup SemanticKeys))
        /\ Len(merged) <= MergeCap

\* a merge that drops duplicates and truncates as well
C4_Witness ==
    /\ MergeDoneA
    /\ LexicalKeys \cap SemanticKeys # {}
    /\ Cardinality(LexicalKeys \cup SemanticKeys) > MergeCap
    /\ Len(merged) = MergeCap

(***************************************************************************)
(* C5: when answer generation gets empty evidence the answer is exactly    *)
(* "I don't know." and the completion provider is not called.              *)
(***************************************************************************)
C5_NoEvidenceNoCompletion ==
    (MergeDone /\ GenerationAsked /\ merged = <<>>) =>
        /\ calls.chat = 0
        /\ pc = "done" => response.answer = IDontKnow

(***************************************************************************)
(* C6: after a provider error of the embedding call the request ends in a  *)
(* successful response whose evidence is the lexical hits, and no semantic *)
(* query is issued.                                                        *)
(***************************************************************************)
C6_EmbeddingErrorDegradesToLexical ==
    (pc = "done" /\ faults.embed > 0) =>
        /\ response.status = 200
        /\ calls.semantic = 0
        /\ ResponseKeys = LexicalKeys

(***************************************************************************)
(* C7: after a failed completion call the request ends in a successful     *)
(* response that carries the merged evidence and a safe fallback answer.   *)
(***************************************************************************)
C7_CompletionErrorKeepsEvidence ==
    (pc = "done" /\ faults.chat > 0) =>
        /\ response.status = 200
        /\ response.answer \in {IDontKnow, FLlmError}
        /\ MergedKeys \subseteq ResponseKeys

(***************************************************************************)
(* C8: a request whose question is empty after trimming is answered 400    *)
(* and causes no lexical query, embedding call, vector query or completion *)
(* call.                                                                   *)
(***************************************************************************)
C8_EmptyQuestionRejected ==
    (Served /\ EmptyAfterTrim(req.question)) =>
        /\ pc = "done" /\ response.status = 400
        /\ calls.exact = 0 /\ calls.embed = 0 /\ calls.semantic = 0 /\ calls.chat = 0

(***************************************************************************)
(* C9: a failed substring lookup does not abort the request: it still ends *)
(* in a successful response.                                               *)
(***************************************************************************)
C9_LexicalFailureNotFatal ==
    (pc = "done" /\ faults.exact > 0) => response.status = 200

(***************************************************************************)
(* C10: a failed nearest-neighbour query (of a well-formed query vector)   *)
(* gives an empty semantic hit list and a successful response that carries *)
(* the lexical hits.                                                       *)
(***************************************************************************)
C10_SemanticFailureNotFatal ==
    (pc = "done" /\ faults.semantic > 0 /\ qvec.t = "vec") =>
        /\ response.status = 200
        /\ response.semantic = <<>>
        /\ LexicalKeys \subseteq ResponseKeys

(***************************************************************************)
(* C11: every accepted ask request eventually gets a response, also when a *)
(* collaborator never replies: each external call ends by a reply or by a  *)
(* timeout, so no request is ever left at an await that nothing will end.  *)
(* A request that reaches such an await is never answered, whatever the    *)
(* scheduling.                                                             *)
(***************************************************************************)
C11_NoRequestWaitsForever == pc # "waiting"

\* The place of each position of a handler in the order of the steps:
\* validate, (connect, statistics), lexical search, embedding, semantic
\* search, (merge and) generation, respond
Rank(p) ==
    CASE p = "idle" -> 0
      [] p \in {"B_connect", "F_connect"} -> 1
      [] p = "F_stats" -> 2
      [] p \in {"A_exact", "B_exact", "F_exact"} -> 3
      [] p \in {"A_embed", "B_embed", "F_embed"} -> 4
      [] p \in {"A_semantic", "B_semantic", "F_semantic"} -> 5
      [] p \in {"A_chat", "B_chat", "F_chat"} -> 6
      [] p = "waiting" -> 7
      [] OTHER -> 8

(***************************************************************************)
(* C12: within one request the steps run in the fixed order validate,      *)
(* lexical search, embedding, semantic search, merge, generation, respond: *)
(* every step of the handler moves it forward in this order (the loop over *)
(* the variants stays inside the lexical step), the lexical and semantic   *)
(* results no longer change once the merge has run, the completion call is *)
(* issued only after the merge, on the merged evidence as it stays, and no *)
(* later step is entered twice.                                            *)
(***************************************************************************)
C12_StepsInFixedOrder ==
    [][pc' # "idle" =>
         /\ \/ Rank(pc') > Rank(pc)
            \/ pc = "F_exact" /\ pc' = "F_exact" /\ Len(pending') < Len(pending)
         /\ MergeDone => exactRows' = exactRows /\ semRows' = semRows /\ merged' = merged
         /\ calls'.chat > calls.chat => MergeDone
         /\ calls'.embed <= 1 /\ calls'.semantic <= 1 /\ calls'.chat <= 1]_vars

\* a request that went through every step: lexical search, embedding,
\* semantic search, merge, generation, response
C12_Witness ==
    /\ pc = "done" /\ response.status = 200
    /\ calls.exact >= 1 /\ calls.embed = 1 /\ calls.semantic = 1 /\ calls.chat = 1

(***************************************************************************)
(* C13: no step retries.  In one request the handler calls the completion  *)
(* provider at most once and the embedding provider at most once, also     *)
(* when the call fails; a request that ends in a successful response with  *)
(* generation asked for and evidence that is not empty called the          *)
(* completion provider exactly once.                                       *)
(***************************************************************************)
C13_NoStepRetries ==
    /\ calls.chat <= 1
    /\ calls.embed <= 1
    /\ (pc = "done" /\ response.status = 200 /\ GenerationAsked /\ merged # <<>>) =>
          calls.chat = 1

\* a request whose embedding call and completion call both failed
C13_Witness ==
    /\ pc = "done"
    /\ faults.embed = 1 /\ calls.embed = 1
    /\ faults.chat = 1 /\ calls.chat = 1

(***************************************************************************)
(* C14: a request that does not ask for a generated answer (useLlm false   *)
(* or absent) never causes a completion call and its response carries no   *)
(* generated answer.                                                       *)
(***************************************************************************)
C14_NoGenerationUnlessAsked ==
    ~req.useLlm => calls.chat = 0 /\ response.answer = NoAnswer

\* every evidence item of the response
ResponseEvidence ==
    Range(response.exact) \cup Range(response.semantic) \cup Range(response.merged)

(***************************************************************************)
(* C15: no response carries the full content of an evidence row: no        *)
(* evidence item of a response has the content of its row as a field       *)
(* (full, text_chunk), and its preview is at most 200 characters and an    *)
(* ellipsis long.                                                          *)
(***************************************************************************)
C15_ResponsesCarryPreviewsOnly ==
    \A h \in ResponseEvidence :
        /\ "full" \notin DOMAIN h
        /\ "text_chunk" \notin DOMAIN h
        /\ "preview" \in DOMAIN h /\ Len(h.preview) <= PreviewLen + 1

\* the rows the retrieval steps of the request returned
RetrievedRows == Range(exactRows) \cup Range(semRows)

(***************************************************************************)
(* C16: both retrieval steps honour the dataset scope of the request: with *)
(* a dataset named, every row retrieved is of that dataset; with the       *)
(* dataset null, absent or "all", the queries run over all datasets (their *)
(* scope is null), not over one dataset.                                   *)
(***************************************************************************)
C16_ScopeHonoured ==
    handler # "none" =>
        IF req.datasetId \in {NULL, "all"}
        THEN scope = NULL
        ELSE \A r \in RetrievedRows : r.dataset_id = req.datasetId

(***************************************************************************)
(* Prompt building: how the ranked rows go into the prompt of the          *)
(* completion call and which of them are cited, in /api/answer             *)
(* (src/ui/src/pages/api/answer.ts, lines 136-155) and in the handler of   *)
(* src/unnamed/part_004 (lines 277-315).  Only the lengths of the strings  *)
(* matter here: a row carries the length of its content.                   *)
(***************************************************************************)
MaxDocs == 3

MAX_CTX_CHARS == 12000
MaxTokens == 8000
CharsPerToken == 4

\* "# Source", "dataset_id: ds1", "pk: 1", "similarity: 0.1234", "" joined
\* with the chunk by "\n"
AnswerHeaderLen == 51
\* "#1 (ds1#1)\n"
FHeaderLen == 11
\* .join("\n\n")
JoinLen == 2

ChunkLens == {100, 5000, 13000, 20000}

\* cosine distances in tenths: One is the 1 of "1 - distance"
One == 10
\* topSim >= 0.6
RelevanceMin == 6
Distances == {0, 4, 5, 12}

\* the rows of a vector query come in the order of their distance
DocLists ==
    UNION { { [i \in 1..n |-> [dataset_id |-> "ds1", pk |-> i, len |-> f[i],
                               distance |-> d[i]]] :
                f \in [1..n -> ChunkLens],
                d \in {e \in [1..n -> Distances] :
                         \A i \in 1..n : \A j \in i..n : e[i] <= e[j]} } :
            n \in 0..MaxDocs }

\* the distance of rows[0] when there is no row (undefined)
NoDistance == 0 - 1

\* cosine distance -> similarity, clamped to [0, 1]
toSimilarity(distance) ==
    IF distance = NoDistance THEN 0
    ELSE Max(0, Min(One, One - distance))

\* a gate that lets every request through
relevant_Always(rows) == TRUE

\* const relevant = toSimilarity(rows[0]?.distance) >= 0.6
relevant(rows) ==
    toSimilarity(IF rows = <<>> THEN NoDistance ELSE rows[1].distance) >= RelevanceMin

\* for (const r of rows) { if (accumulated + chunk.length > MAX_CTX_CHARS) break;
\* contextBlocks.push(...); accumulated += chunk.length }: the number of
\* blocks pushed
RECURSIVE contextBlocks(_, _, _)
contextBlocks(rows, i, accumulated) ==
    IF i > Len(rows) THEN 0
    ELSE IF accumulated + rows[i].len > MAX_CTX_CHARS THEN 0
    ELSE 1 + contextBlocks(rows, i + 1, accumulated + rows[i].len)

\* Math.ceil(text.length / 4)
estimateTokens(n) == (n + CharsPerToken - 1) \div CharsPerToken

\* the number of characters of the context that truncateContext keeps
truncateContext(n) ==
    IF estimateTokens(n) <= MaxTokens THEN n
    ELSE (MaxTokens * n) \div estimateTokens(n)

\* where the block of row i starts in results.map(...).join("\n\n")
RECURSIVE BlockStart(_, _)
BlockStart(rows, i) ==
    IF i = 1 THEN 0
    ELSE BlockStart(rows, i - 1) + FHeaderLen + rows[i - 1].len + JoinLen

contextSnippetLen(rows) ==
    BlockStart(rows, Len(rows)) + FHeaderLen + rows[Len(rows)].len

\* /api/answer after retrieval: the relevance gate, citations of all rows,
\* context blocks while the budget lasts, and the completion call only
\* for a relevant top row and at least one block; the call answers with a
\* text, with nothing, or throws
BuildAnswerPrompt ==
    /\ prompt.by = "none"
    /\ LET n == contextBlocks(docs, 1, 0)
           size == [i \in 1..Len(docs) |-> AnswerHeaderLen + docs[i].len]
           chat == relevant(docs) /\ n > 0
       IN  \E out \in IF chat THEN {"text", "empty", "error"} ELSE {"none"} :
             prompt' = [by |-> "answer",
                        size |-> size,
                        included |-> [i \in 1..Len(docs) |-> IF i <= n THEN size[i] ELSE 0],
                        cited |-> {RowKey(docs[i]) : i \in 1..Len(docs)},
                        chat |-> chat,
                        status |-> IF out = "error" THEN 500 ELSE 200,
                        answer |-> CASE out = "text" -> LlmText
                                     [] out = "error" -> NoAnswer
                                     [] OTHER -> IDontKnow]
    /\ UNCHANGED <<docs, limits, askVars, pubVars>>

\* part_004 with useLlm and results: the context snippet cut by
\* truncateContext, citations of all results
BuildFallbackPrompt ==
    /\ prompt.by = "none"
    /\ docs # <<>>
    /\ LET kept == truncateContext(contextSnippetLen(docs))
           size == [i \in 1..Len(docs) |-> FHeaderLen + docs[i].len]
       IN  prompt' = [by |-> "part_004",
                      size |-> size,
                      included |-> [i \in 1..Len(docs) |->
                                      Max(0, Min(size[i], kept - BlockStart(docs, i)))],
                      cited |-> {RowKey(docs[i]) : i \in 1..Len(docs)},
                      chat |-> TRUE, status |-> 200, answer |-> LlmText]
    /\ UNCHANGED <<docs, limits, askVars, pubVars>>

PromptInit ==
    /\ AskInit
    /\ docs \in DocLists
    /\ prompt = NoPrompt
    /\ limits = NoLimits
    /\ NoPublish

PromptNext == BuildAnswerPrompt \/ BuildFallbackPrompt

PromptSpec == PromptInit /\ [][PromptNext]_vars

(***************************************************************************)
(* C17: the rows in the prompt are a prefix of the ranked rows and each of *)
(* them is in the prompt whole: a row is in the prompt with all of its     *)
(* block or with nothing, and after a row that is left out every           *)
(* lower-ranked row is left out too.                                       *)
(***************************************************************************)
C17_TruncationKeepsWholePrefix ==
    \A i \in 1..Len(prompt.included) :
        /\ prompt.included[i] \in {0, prompt.size[i]}
        /\ prompt.included[i] = 0 =>
              \A j \in (i + 1)..Len(prompt.included) : prompt.included[j] = 0

(***************************************************************************)
(* C18: the evidence cited with a generated answer (a prompt with at least *)
(* one row was sent) is exactly the rows that are in the final prompt: no  *)
(* row left out by truncation is cited, and every row in the prompt is     *)
(* cited.                                                                  *)
(***************************************************************************)
C18_CitedIsExactlyIncluded ==
    (prompt.chat /\ \E i \in 1..Len(docs) : prompt.included[i] > 0) =>
        prompt.cited = {RowKey(docs[i]) : i \in {j \in 1..Len(docs) : prompt.included[j] > 0}}

(***************************************************************************)
(* C19: a query embedding whose length is not the 1536 of the stored       *)
(* vectors is never used for a semantic query, and the request it belongs  *)
(* to ends in an error, not in a successful response.                      *)
(***************************************************************************)
C19_DimensionMismatchIsHardError ==
    faults.dims > 0 =>
        /\ calls.semantic = 0
        /\ pc = "done" => response.status # 200

\* text contains pat, character by character
Contains(text, pat) ==
    \E o \in 0..(Len(text) - Len(pat)) : \A i \in 1..Len(pat) : text[o + i] = pat[i]

HasHyphen(s) == \E i \in 1..Len(s) : s[i] = "-"

\* the phrases the lexical step of the request puts into its ILIKE queries
SearchedPhrases ==
    CASE handler = "A" -> {simplifyForIlike(qtext)}
      [] handler = "B" -> {qtext}
      [] OTHER -> {v \in Range(generateSearchVariations(qtext)) :
                      Len(v) <= FMaxVariation /\ Len(v) >= FMinVariation}

\* the variants of a query with hyphens: itself, hyphens as underscores, as
\* spaces, removed, and each segment between hyphens of a long query
HyphenVariants(q) ==
    {q, ReplaceHyphen(q, <<"_">>), ReplaceHyphen(q, <<" ">>), ReplaceHyphen(q, <<>>)} \cup
    (IF Len(q) > FSplitMinLen THEN Range(SplitHyphen(q)) ELSE {})

\* the lexical step of the request has run, and none of its queries failed
LexicalDone ==
    /\ calls.exact >= 1
    /\ faults.exact = 0
    /\ pc \notin {"A_exact", "B_exact", "F_exact", "waiting"}

(***************************************************************************)
(* C20: for a query with hyphens the lexical step searches the variants of *)
(* the query (itself, hyphens as underscores, as spaces, removed, each     *)
(* segment of a long query), so that when a row in scope contains the      *)
(* query with underscores for hyphens, the lexical hits hold such a row.   *)
(***************************************************************************)
C20_HyphenVariantsSearched ==
    (LexicalDone /\ HasHyphen(qtext)) =>
        /\ SearchedPhrases = HyphenVariants(qtext)
        /\ (\E r \in Embeddings :
                InScope(r, scope) /\ Contains(r.text_chunk, ReplaceHyphen(qtext, <<"_">>)))
             => \E r \in Range(exactRows) :
                    Contains(r.text_chunk, ReplaceHyphen(qtext, <<"_">>))

\* the loop over the variations of the fallback handler is over
FLexicalDone ==
    /\ handler = "F"
    /\ calls.stats = 1 /\ faults.stats = 0
    /\ pending = <<>>
    /\ pc \in {"F_embed", "F_semantic", "F_chat", "done"}

\* the places in allResults of the first row of each key
FirstSeen == {i \in 1..Len(allResults) :
                \A j \in 1..(i - 1) : RowKey(allResults[j]) # RowKey(allResults[i])}

(***************************************************************************)
(* C21: the lexical result of the fallback handler is the per-variant hits *)
(* in first-seen order, without the duplicates by (dataset_id, pk), cut to *)
(* the limit: never more rows than the limit, never a row twice; and only  *)
(* the variants of 2 to 100 characters are queried.                        *)
(***************************************************************************)
C21_LexicalUnionFirstSeenTruncated ==
    FLexicalDone =>
        /\ Len(exactRows) = Min(kLex, Cardinality(FirstSeen))
        /\ \A n \in 1..Len(exactRows) :
              exactRows[n] = allResults[CHOOSE i \in FirstSeen :
                                           Cardinality({j \in FirstSeen : j < i}) = n - 1]
        /\ Len(exactRows) <= kLex
        /\ Cardinality(RowKeys(exactRows)) = Len(exactRows)
        /\ calls.exact =
              Cardinality({v \in Range(generateSearchVariations(qtext)) :
                              Len(v) >= FMinVariation /\ Len(v) <= FMaxVariation})

\* several variants were queried, their hits overlap and are more than the
\* limit
C21_Witness ==
    /\ FLexicalDone
    /\ calls.exact >= 2
    /\ Cardinality(FirstSeen) < Len(allResults)
    /\ Cardinality(FirstSeen) > kLex
    /\ Len(exactRows) = kLex

(***************************************************************************)
(* C22: the semantic hits are in ascending order of distance, and hits at  *)
(* the same distance are in the order of their primary keys, so that the   *)
(* list is the same for the same store and query vector.                   *)
(***************************************************************************)
C22_SemanticOrderedByDistanceThenPk ==
    \A i, j \in 1..Len(semRows) :
        i < j =>
            \/ semRows[i].distance < semRows[j].distance
            \/ semRows[i].distance = semRows[j].distance /\ semRows[i].pk <= semRows[j].pk

(***************************************************************************)
(* Limit clamping: what each handler makes of the exactLimit and k of the  *)
(* request body.  A value of the body is absent, an integer, an integer    *)
(* and a half, or a string that is no number; a number of the handler is   *)
(* an integer, an integer and a half, or NaN.                              *)
(***************************************************************************)
Half(n) == [t |-> "half", v |-> n]
Text == [t |-> "text", v |-> 0]
NaN == [t |-> "nan", v |-> 0]

BodyNumbers == {Absent, Num(0 - 1), Num(0), Num(3), Num(30), Num(1000), Half(2), Text}

\* Number(x), +x
ToNumber(x) == IF x.t \in {"num", "half"} THEN x ELSE NaN

\* Number.isFinite(x)
IsFinite(x) == x.t \in {"num", "half"}

\* twice the value of a finite number
Twice(x) == IF x.t = "half" THEN 2 * x.v + 1 ELSE 2 * x.v

\* Math.trunc
Trunc(x) == IF x.t = "half" /\ x.v < 0 THEN x.v + 1 ELSE x.v

\* Math.min, Math.max: NaN when an argument is NaN
MathMin(a, b) ==
    IF ~IsFinite(ToNumber(a)) \/ ~IsFinite(ToNumber(b)) THEN NaN
    ELSE IF Twice(a) <= Twice(b) THEN a ELSE b
MathMax(a, b) ==
    IF ~IsFinite(ToNumber(a)) \/ ~IsFinite(ToNumber(b)) THEN NaN
    ELSE IF Twice(a) >= Twice(b) THEN a ELSE b

\* x ?? d and x || d
OrElse(x, d) == IF x.t = "absent" THEN Num(d) ELSE x
OrIfFalsy(x, d) == IF x.t = "absent" \/ x = Num(0) THEN Num(d) ELSE x

\* clampInt(Number(x), min, max) of ask.ts:249-252
clampIntOf(x, min, max) ==
    IF ~IsFinite(ToNumber(x)) THEN Num(min) ELSE Num(clampInt(Trunc(x), min, max))

\* ask.ts:110-111
K_EXACT(e) == clampIntOf(OrElse(e, DefaultExactLimit), 0, MaxExactLimit)
K_SEM(k) == clampIntOf(OrElse(k, DefaultKSem), 1, MaxKSem)

\* ask.ts:468: the k of the exact and of the semantic query
kOfBody(k) ==
    IF IsFinite(k) /\ Twice(k) > 0 /\ Twice(k) <= 2 * BMaxK THEN k ELSE Num(BDefaultK)

\* part_004:164: the topK of the exact and of the semantic query
topK(k) == MathMax(Num(1), MathMin(OrIfFalsy(k, FDefaultK), Num(FMaxK)))

\* answer.ts:82
AnswerDefaultK == 5
AnswerMaxK == 50
KOfAnswer(k) ==
    MathMax(Num(1), MathMin(IF IsFinite(ToNumber(k)) THEN k ELSE Num(AnswerDefaultK),
                            Num(AnswerMaxK)))

Clamped(by, lex, sem) ==
    /\ limits.by = "none"
    /\ limits' = [limits EXCEPT !.by = by, !.lexical = lex, !.semantic = sem]
    /\ UNCHANGED <<askVars, docs, prompt, pubVars>>

ClampA == Clamped("A", K_EXACT(limits.exactLimit), K_SEM(limits.k))
ClampB == Clamped("B", kOfBody(limits.k), kOfBody(limits.k))
ClampF == Clamped("F", topK(limits.k), topK(limits.k))
ClampAnswer == Clamped("answer", Absent, KOfAnswer(limits.k))

LimitInit ==
    /\ AskInit
    /\ docs = <<>>
    /\ prompt = NoPrompt
    /\ \E e \in BodyNumbers, k \in BodyNumbers :
          limits = [NoLimits EXCEPT !.exactLimit = e, !.k = k]
    /\ NoPublish

LimitNext == ClampA \/ ClampB \/ ClampF \/ ClampAnswer

LimitSpec == LimitInit /\ [][LimitNext]_vars

\* the upper bound of the semantic limit of each handler
SemanticBound ==
    CASE limits.by = "A" -> MaxKSem
      [] limits.by = "B" -> BMaxK
      [] limits.by = "F" -> FMaxK
      [] OTHER -> AnswerMaxK

(***************************************************************************)
(* C23: whatever the body holds as exactLimit and k, the limits a handler  *)
(* passes to the store are integers, the lexical one from 0 to 10 and the  *)
(* semantic one from 1 to the bound of the handler (25 or 50).             *)
(***************************************************************************)
C23_LimitsAreClampedIntegers ==
    limits.by # "none" =>
        /\ limits.lexical.t # "absent" =>
              /\ limits.lexical.t = "num"
              /\ limits.lexical.v >= 0 /\ limits.lexical.v <= MaxExactLimit
        /\ limits.semantic.t = "num"
        /\ limits.semantic.v >= 1 /\ limits.semantic.v <= SemanticBound

(***************************************************************************)
(* C24: in the fallback handler the semantic step (embedding call, vector  *)
(* query) runs exactly when the lexical step returned no row; the results  *)
(* of a request are its lexical rows, or else its semantic rows, never a   *)
(* mix; and after a failure of the embedding call or of the vector query   *)
(* the request ends in a successful response with empty results.           *)
(***************************************************************************)
C24_SemanticOnlyWithoutLexicalHits ==
    FLexicalDone =>
        /\ exactRows # <<>> => calls.embed = 0 /\ calls.semantic = 0
        /\ exactRows = <<>> => pc = "F_embed" \/ calls.embed = 1
        /\ (pc = "done" /\ response.status = 200) =>
              response.merged =
                 IF exactRows # <<>> THEN NeighborsF(exactRows) ELSE NeighborsF(semRows)
        /\ (pc = "done" /\ faults.embed + faults.semantic > 0) =>
              response.status = 200 /\ response.merged = <<>>

\* the lexical step found nothing and the vector query of the fallback
\* failed
C24_Witness ==
    /\ FLexicalDone
    /\ pc = "done"
    /\ calls.exact >= 1
    /\ exactRows = <<>>
    /\ qvec.t = "vec" /\ faults.semantic = 1
    /\ response.status = 200

(***************************************************************************)
(* C25: /api/answer calls the completion provider only if the similarity   *)
(* of the top row (1 - distance, clamped to [0, 1]) is at least 0.6 and    *)
(* the first chunk fits the budget of 12000 characters; every other        *)
(* successful request (no rows, weak top row, first chunk over budget)     *)
(* answers exactly "I don't know." without a completion call.              *)
(***************************************************************************)
TopIsStrong ==
    /\ docs # <<>>
    /\ Max(0, Min(One, One - docs[1].distance)) * 10 >= 6 * One

FirstChunkFits == docs # <<>> /\ docs[1].len <= MAX_CTX_CHARS

C25_CompletionOnlyBehindGate ==
    prompt.by = "answer" =>
        /\ prompt.chat => TopIsStrong /\ FirstChunkFits
        /\ (prompt.status = 200 /\ ~(TopIsStrong /\ FirstChunkFits)) =>
              ~prompt.chat /\ prompt.answer = IDontKnow

\* a top row at similarity 0.6 whose chunk is over the budget
C25_Witness ==
    /\ prompt.by = "answer"
    /\ docs # <<>>
    /\ docs[1].distance = 4
    /\ docs[1].len > MAX_CTX_CHARS
    /\ prompt.status = 200
    /\ prompt.answer = IDontKnow

(***************************************************************************)
(* The handler of /api/answer (src/ui/src/pages/api/answer.ts, lines       *)
(* 72-215) as a request of its own: validate, embed the question, take a   *)
(* connection of the pool, run the vector query and release the            *)
(* connection, then the relevance gate and the completion call.            *)
(***************************************************************************)
\* (question ?? "").toString().trim(): a number becomes its digits
QuestionN(qn) ==
    CASE qn.t = "str" -> Trim(qn.v)
      [] qn.t = "num" -> <<"5">>
      [] OTHER -> <<>>

\* rows.map((r) => ({ dataset_id: r.dataset_id, pk: r.pk }))
citations(rows) ==
    [i \in 1..Len(rows) |-> [dataset_id |-> rows[i].dataset_id, pk |-> rows[i].pk]]

\* the rows as the prompt building sees them
AsDocs(rows) ==
    [i \in 1..Len(rows) |->
        [dataset_id |-> rows[i].dataset_id, pk |-> rows[i].pk,
         len |-> Len(rows[i].text_chunk), distance |-> rows[i].distance]]

N_Receive ==
    /\ pc = "idle"
    /\ \E m \in {"POST", "GET"}, qn \in Questions, d \in DatasetIds \cup {"ds2"},
          k \in KValues :
          req' = Request(m, qn, d, k, Absent, FALSE)
    /\ tieAsc' \in BOOLEAN
    /\ hasKey' = TRUE
    /\ handler' = "N"
    /\ Fresh
    /\ qtext' = QuestionN(req'.question)
    /\ scope' = req'.datasetId
    /\ kLex' = 0
    /\ kSem' = KOfAnswer(req'.k).v
    /\ IF req'.method # "POST" THEN ErrorResponse(405)
       ELSE IF qtext' = <<>> THEN ErrorResponse(400)
       ELSE pc' = "N_embed" /\ response' = NoResponse
    /\ UNCHANGED checkedOut
    /\ UNCHANGED promptVars

\* 1) openai.embeddings.create; no embedding in the reply is an error
N_Embed ==
    /\ pc = "N_embed"
    /\ calls' = [calls EXCEPT !.embed = @ + 1]
    /\ \E out \in {"ok", "error", "baddims"} :
          IF out = "error"
          THEN /\ ErrorResponse(500)
               /\ Fault("embed")
               /\ UNCHANGED qvec
          ELSE /\ \E v \in 0..MaxQVec :
                     qvec' = [t |-> IF out = "ok" THEN "vec" ELSE "badvec", v |-> v]
               /\ pc' = "N_connect"
               /\ faults' = IF out = "ok" THEN faults ELSE [faults EXCEPT !.dims = @ + 1]
               /\ UNCHANGED response
    /\ UNCHANGED <<handler, req, tieAsc, hasKey, qtext, scope, kLex, kSem, exactRows,
                   semRows, merged, pending, allResults, checkedOut>>
    /\ UNCHANGED promptVars

\* const client = await pool.connect(), inside the try of the handler; the
\* pool has no connectionTimeoutMillis
N_Connect ==
    /\ pc = "N_connect"
    /\ \E out \in {"ok", "error", "silent"} :
          CASE out = "ok" ->
               /\ checkedOut' = checkedOut + 1
               /\ pc' = "N_query"
               /\ UNCHANGED response
            [] out = "error" ->
               /\ ErrorResponse(500)
               /\ UNCHANGED checkedOut
            [] OTHER -> Hang /\ UNCHANGED checkedOut
    /\ UNCHANGED <<handler, req, tieAsc, hasKey, qtext, scope, kLex, kSem, exactRows,
                   qvec, semRows, merged, pending, allResults, calls, faults>>
    /\ UNCHANGED promptVars

\* 2) try { rows = (await client.query(sql, params)).rows } finally
\* { client.release() }, then 3) the relevance gate and the context blocks
N_Query ==
    /\ pc = "N_query"
    /\ calls' = [calls EXCEPT !.semantic = @ + 1]
    /\ \E out \in {o \in {"ok", "error", "silent"} :
                        o = "ok" => VectorQueryMayAnswer(qvec, scope)} :
          CASE out = "ok" ->
               /\ semRows' = pgSemantic(qvec.v, scope, kSem, tieAsc)
               /\ merged' = citations(semRows')
               /\ checkedOut' = checkedOut - 1
               /\ IF relevant(semRows') /\ contextBlocks(AsDocs(semRows'), 1, 0) > 0
                  THEN pc' = "N_chat" /\ UNCHANGED response
                  ELSE Respond(200, IDontKnow, <<>>, <<>>, merged')
               /\ UNCHANGED faults
            [] out = "error" ->
               /\ ErrorResponse(500)
               /\ checkedOut' = checkedOut - 1
               /\ Fault("semantic")
               /\ UNCHANGED <<semRows, merged>>
            [] OTHER -> Hang /\ UNCHANGED <<semRows, merged, checkedOut, faults>>
    /\ UNCHANGED <<handler, req, tieAsc, hasKey, qtext, scope, kLex, kSem, exactRows,
                   qvec, pending, allResults>>
    /\ UNCHANGED promptVars

\* 4) openai.chat.completions.create: a text, nothing, or an exception
N_Chat ==
    /\ pc = "N_chat"
    /\ calls' = [calls EXCEPT !.chat = @ + 1]
    /\ \E out \in {"text", "empty", "error"} :
          CASE out = "text" -> Respond(200, LlmText, <<>>, <<>>, merged) /\ UNCHANGED faults
            [] out = "empty" -> Respond(200, IDontKnow, <<>>, <<>>, merged) /\ UNCHANGED faults
            [] OTHER -> ErrorResponse(500) /\ Fault("chat")
    /\ UNCHANGED <<handler, req, tieAsc, hasKey, qtext, scope, kLex, kSem, exactRows,
                   qvec, semRows, merged, pending, allResults, checkedOut>>
    /\ UNCHANGED promptVars

\* the requests of all the endpoints that take connections of a pool,
\* one after the other
PoolNext ==
    \/ Next
    \/ N_Receive \/ N_Embed \/ N_Connect \/ N_Query \/ N_Chat

PoolSpec == Init /\ [][PoolNext]_vars

(***************************************************************************)
(* C26: a connection that an ask or answer request takes from the pool is  *)
(* released exactly once on every way out of the handler (success, early   *)
(* return, store error, provider error): a request holds at most one       *)
(* connection, never releases one it does not hold, and when requests have *)
(* finished no connection is checked out.                                  *)
(***************************************************************************)
C26_ConnectionsReleasedOnce ==
    /\ checkedOut \in {0, 1}
    /\ pc \in {"idle", "done"} => checkedOut = 0
    /\ checkedOut = 1 => handler \in {"B", "F", "N"}

\* an answer request whose vector query failed after the connection was
\* taken
C26_Witness ==
    /\ handler = "N"
    /\ pc = "done"
    /\ calls.semantic = 1 /\ faults.semantic = 1
    /\ response.status = 500
    /\ checkedOut = 0

(***************************************************************************)
(* Publishing: rows of a dataset are read, embedded and written to the     *)
(* embeddings table.  Four pieces of code do it:                           *)
(*   E  publishEmbeddings, called by pages/api/publish/[id].ts with        *)
(*      truncate (src/ui/src/lib/publish.ts, lines 181-236 and 370-427);   *)
(*   D  publishDataset (src/ui/src/lib/publish.ts, lines 51-125);          *)
(*   H  the handler of src/ui/src/pages/api/datasets/[id].ts (46-152);     *)
(*   P  the handler of src/unnamed/part_006 (lines 180-366).               *)
(* Two requests run at the same time.  The table is a Postgres table at    *)
(* the default isolation level: a statement sees the rows committed when   *)
(* it starts, waits for a row another transaction has deleted or inserted  *)
(* and not yet committed, and a transaction's changes appear at COMMIT.    *)
(* A row carries the request that wrote it (by, 0 for rows that were       *)
(* there before).                                                          *)
(***************************************************************************)
MaxPubPk == 2

PubPks == 1..MaxPubPk
PubDatasets == {"ds1", "ds2"}
Other(p) == 3 - p

PubRows(ds, pks, by) == {[dataset_id |-> ds, pk |-> k, by |-> by] : k \in pks}
OfDataset(rows, ds) == {r \in rows : r.dataset_id = ds}

\* the rows transaction p sees: the committed ones it has not deleted, and
\* its own inserts
Present(p) == (store \ pub[p].del) \cup pub[p].ins

\* the unique index finds the key (ds, k) among the rows p sees
KeyTaken(p, ds, k) == \E r \in Present(p) : r.dataset_id = ds /\ r.pk = k

\* the other transaction holds an uncommitted insert or delete of the key
KeyLocked(p, ds, k) ==
    \E r \in pub[Other(p)].ins \cup pub[Other(p)].del : r.dataset_id = ds /\ r.pk = k

First(S) == CHOOSE k \in S : \A j \in S : k <= j

PubFrame == UNCHANGED <<askVars, docs, prompt, limits, uniqueKey>>

\* a request arrives: what it remembers of the table is a history variable
Arrived(kind, first, ds) ==
    [IdlePub EXCEPT !.kind = kind, !.pc = first, !.ds = ds, !.before = store]

\* the request ends; nothing of an open transaction is left
Ended(p, status, label, at) ==
    [pub[p] EXCEPT !.pc = "done", !.status = status, !.label = label, !.failedAt = at,
                   !.del = {}, !.ins = {}, !.todo = {}]

\* a table whose failed transactions keep what they did
AfterRollback_Partial(p) == (store \ pub[p].del) \cup pub[p].ins

\* ROLLBACK: the committed rows are what they were
AfterRollback(p) == store

(* E: pages/api/publish/[id].ts and publishEmbeddings *)

\* catch (e) { ROLLBACK; throw e } and the catch of the handler: 500
E_Throw(p, at) ==
    /\ pub' = [pub EXCEPT ![p] = Ended(p, 500, "none", at)]
    /\ store' = AfterRollback(p)

\* method, id and limit are checked before publishEmbeddings is called
E_Receive(p) ==
    /\ pub[p].pc = "idle"
    /\ \E valid \in BOOLEAN, ds \in PubDatasets :
          pub' = [pub EXCEPT ![p] =
                    IF valid THEN Arrived("E", "E_pull", ds)
                    ELSE [Arrived("E", "done", ds) EXCEPT !.status = 400]]
    /\ UNCHANGED store
    /\ PubFrame

\* 1) trinoQueryRows, 2) chunks; without chunks the old rows are deleted
\* (deleteDatasetEmbeddings: BEGIN, DELETE, COMMIT)
E_Pull(p) ==
    /\ pub[p].pc = "E_pull"
    /\ \/ E_Throw(p, "pull")
       \/ \E c \in SUBSET PubPks :
            /\ pub' = [pub EXCEPT ![p] =
                         [@ EXCEPT !.chunks = c,
                                   !.pc = IF c = {} THEN "E_delete" ELSE "E_embed"]]
            /\ UNCHANGED store
    /\ PubFrame

\* 3) embedChunksOpenAI
E_Embed(p) ==
    /\ pub[p].pc = "E_embed"
    /\ \/ E_Throw(p, "embed")
       \/ /\ pub' = [pub EXCEPT ![p] = [@ EXCEPT !.pc = "E_delete"]]
          /\ UNCHANGED store
    /\ PubFrame

\* pgPool.connect, BEGIN, and the DELETE starts: it is to delete the rows
\* of the dataset that are committed now
E_DeleteStart(p) ==
    /\ pub[p].pc = "E_delete"
    /\ \/ E_Throw(p, "begin")
       \/ /\ pub' = [pub EXCEPT ![p] =
                       [@ EXCEPT !.target = OfDataset(store, pub[p].ds),
                                 !.pc = "E_deleting"]]
          /\ UNCHANGED store
    /\ PubFrame

\* the DELETE ends, once no row it is to delete is held by the other
\* transaction; rows that are gone by then are passed over
E_DeleteFinish(p) ==
    /\ pub[p].pc = "E_deleting"
    /\ \/ E_Throw(p, "delete")
       \/ /\ pub[p].target \cap pub[Other(p)].del = {}
          /\ pub' = [pub EXCEPT ![p] =
                       [@ EXCEPT !.del = pub[p].target \cap store,
                                 !.pc = IF pub[p].chunks = {} THEN "E_commit"
                                        ELSE "E_insert"]]
          /\ UNCHANGED store
    /\ PubFrame

\* INSERT INTO ... VALUES (...), (...): all chunks in one statement (fewer
\* than 500), no ON CONFLICT
E_Insert(p) ==
    /\ pub[p].pc = "E_insert"
    /\ \/ E_Throw(p, "insert")
       \/ /\ uniqueKey => \A k \in pub[p].chunks : ~KeyLocked(p, pub[p].ds, k)
          /\ IF uniqueKey /\ \E k \in pub[p].chunks : KeyTaken(p, pub[p].ds, k)
             THEN E_Throw(p, "conflict")
             ELSE /\ pub' = [pub EXCEPT ![p] =
                               [@ EXCEPT !.ins = PubRows(pub[p].ds, pub[p].chunks, p),
                                         !.inserted = Cardinality(pub[p].chunks),
                                         !.pc = "E_commit"]]
                  /\ UNCHANGED store
    /\ PubFrame

\* COMMIT, return inserted; the handler answers 200 with its status
E_Commit(p) ==
    /\ pub[p].pc = "E_commit"
    /\ \/ E_Throw(p, "commit")
       \/ /\ store' = (store \ pub[p].del) \cup pub[p].ins
          /\ pub' = [pub EXCEPT ![p] =
                       [Ended(p, 200,
                              IF pub[p].inserted = 0 THEN "no-new-rows" ELSE "published",
                              "none")
                          EXCEPT !.added = Cardinality(pub[p].ins)]]
    /\ PubFrame

(* D: publishDataset *)

D_Throw(p, at) ==
    /\ pub' = [pub EXCEPT ![p] = Ended(p, 500, "none", at)]
    /\ UNCHANGED store

D_Call(p) ==
    /\ pub[p].pc = "idle"
    /\ \E ds \in PubDatasets : pub' = [pub EXCEPT ![p] = Arrived("D", "D_pull", ds)]
    /\ UNCHANGED store
    /\ PubFrame

\* 1) catalog lookup, 2) path, 3) rows; then pool.connect
D_Pull(p) ==
    /\ pub[p].pc = "D_pull"
    /\ \/ D_Throw(p, "pull")
       \/ \E c \in SUBSET PubPks :
            /\ pub' = [pub EXCEPT ![p] =
                         IF c = {} THEN Ended(p, 200, "none", "none")
                         ELSE [@ EXCEPT !.chunks = c, !.todo = c, !.pc = "D_embed"]]
            /\ UNCHANGED store
    /\ PubFrame

\* embedBatch, then BEGIN
D_Embed(p) ==
    /\ pub[p].pc = "D_embed"
    /\ \/ D_Throw(p, "embed")
       \/ /\ pub' = [pub EXCEPT ![p] = [@ EXCEPT !.pc = "D_insert"]]
          /\ UNCHANGED store
    /\ PubFrame

\* one row: INSERT ... ON CONFLICT (dataset_id, pk) DO NOTHING; inserted++
D_Insert(p) ==
    /\ pub[p].pc = "D_insert"
    /\ \/ D_Throw(p, "insert")
       \/ LET k == First(pub[p].todo)
              rest == pub[p].todo \ {k}
          IN  /\ uniqueKey => ~KeyLocked(p, pub[p].ds, k)
              /\ IF ~uniqueKey THEN D_Throw(p, "noindex")
                 ELSE /\ pub' = [pub EXCEPT ![p] =
                                   [@ EXCEPT !.ins = IF KeyTaken(p, pub[p].ds, k) THEN @
                                                     ELSE @ \cup PubRows(pub[p].ds, {k}, p),
                                             !.inserted = @ + 1,
                                             !.todo = rest,
                                             !.pc = IF rest = {} THEN "D_commit"
                                                    ELSE "D_insert"]]
                      /\ UNCHANGED store
    /\ PubFrame

D_Commit(p) ==
    /\ pub[p].pc = "D_commit"
    /\ \/ D_Throw(p, "commit")
       \/ /\ store' = store \cup pub[p].ins
          /\ pub' = [pub EXCEPT ![p] =
                       [Ended(p, 200, "none", "none")
                          EXCEPT !.added = Cardinality(pub[p].ins)]]
    /\ PubFrame

(* H: the handler of pages/api/datasets/[id].ts; finally { pg.end() } *)

H_End(p, status, label, at) ==
    pub' = [pub EXCEPT ![p] = [Ended(p, status, label, at) EXCEPT !.open = FALSE]]

H_Receive(p) ==
    /\ pub[p].pc = "idle"
    /\ \E valid \in BOOLEAN, ds \in PubDatasets :
          pub' = [pub EXCEPT ![p] =
                    IF valid THEN Arrived("H", "H_connect", ds)
                    ELSE [Arrived("H", "done", ds) EXCEPT !.status = 400]]
    /\ UNCHANGED store
    /\ PubFrame

\* await pg.connect(), inside the try
H_Connect(p) ==
    /\ pub[p].pc = "H_connect"
    /\ \/ H_End(p, 500, "none", "connect")
       \/ pub' = [pub EXCEPT ![p] = [@ EXCEPT !.open = TRUE, !.pc = "H_pull"]]
    /\ UNCHANGED store
    /\ PubFrame

\* 1) lookup (404), 2) path (404), 3) rows (none: no-new-rows)
H_Pull(p) ==
    /\ pub[p].pc = "H_pull"
    /\ \/ H_End(p, 500, "none", "pull")
       \/ H_End(p, 404, "not-found", "none")
       \/ \E c \in SUBSET PubPks :
            IF c = {} THEN H_End(p, 200, "no-new-rows", "none")
            ELSE pub' = [pub EXCEPT ![p] =
                           [@ EXCEPT !.chunks = c, !.todo = c, !.pc = "H_embed"]]
    /\ UNCHANGED store
    /\ PubFrame

H_Embed(p) ==
    /\ pub[p].pc = "H_embed"
    /\ \/ H_End(p, 500, "none", "embed")
       \/ pub' = [pub EXCEPT ![p] = [@ EXCEPT !.pc = "H_insert"]]
    /\ UNCHANGED store
    /\ PubFrame

\* one row, committed at once: INSERT ... ON CONFLICT (dataset_id, pk) DO
\* NOTHING; inserted++; after the last row the 200 "published"
H_Insert(p) ==
    /\ pub[p].pc = "H_insert"
    /\ \/ H_End(p, 500, "none", "insert") /\ UNCHANGED store
       \/ LET k == First(pub[p].todo)
              rest == pub[p].todo \ {k}
              taken == KeyTaken(p, pub[p].ds, k)
              now == [pub[p] EXCEPT !.inserted = @ + 1,
                                    !.added = IF taken THEN @ ELSE @ + 1,
                                    !.todo = rest]
          IN  /\ uniqueKey => ~KeyLocked(p, pub[p].ds, k)
              /\ IF ~uniqueKey THEN H_End(p, 500, "none", "noindex") /\ UNCHANGED store
                 ELSE /\ store' = IF taken THEN store
                                  ELSE store \cup PubRows(pub[p].ds, {k}, p)
                      /\ pub' = [pub EXCEPT ![p] =
                                   IF rest = {}
                                   THEN [now EXCEPT !.pc = "done", !.status = 200,
                                                    !.label = "published", !.open = FALSE]
                                   ELSE now]
    /\ PubFrame

(* P: the handler of part_006; pg.end() before the two 200 responses *)

\* the catch of the handler: 500, the client is left as it is
P_Throw(p, at) == pub' = [pub EXCEPT ![p] = Ended(p, 500, "none", at)]

P_Receive(p) ==
    /\ pub[p].pc = "idle"
    /\ \E valid \in BOOLEAN, ds \in PubDatasets :
          pub' = [pub EXCEPT ![p] =
                    IF valid THEN Arrived("P", "P_connect", ds)
                    ELSE [Arrived("P", "done", ds) EXCEPT !.status = 400]]
    /\ UNCHANGED store
    /\ PubFrame

\* new PgClient, await pg.connect()
P_Connect(p) ==
    /\ pub[p].pc = "P_connect"
    /\ \/ P_Throw(p, "connect")
       \/ pub' = [pub EXCEPT ![p] = [@ EXCEPT !.open = TRUE, !.pc = "P_pull"]]
    /\ UNCHANGED store
    /\ PubFrame

\* withDuck(iceberg_scan ... LIMIT): a dataset that is not there is an
\* exception; no rows: pg.end() and 200 "no-new-rows"
P_Pull(p) ==
    /\ pub[p].pc = "P_pull"
    /\ \/ P_Throw(p, "pull")
       \/ \E c \in SUBSET PubPks :
            pub' = [pub EXCEPT ![p] =
                      IF c = {}
                      THEN [Ended(p, 200, "no-new-rows", "none") EXCEPT !.open = FALSE]
                      ELSE [@ EXCEPT !.chunks = c, !.todo = c, !.pc = "P_embed"]]
    /\ UNCHANGED store
    /\ PubFrame

P_Embed(p) ==
    /\ pub[p].pc = "P_embed"
    /\ \/ P_Throw(p, "embed")
       \/ pub' = [pub EXCEPT ![p] = [@ EXCEPT !.pc = "P_insert"]]
    /\ UNCHANGED store
    /\ PubFrame

\* one row, committed at once: INSERT without ON CONFLICT; inserted += 1;
\* after the last row pg.end() and the 200 "published"
P_Insert(p) ==
    /\ pub[p].pc = "P_insert"
    /\ \/ P_Throw(p, "insert") /\ UNCHANGED store
       \/ LET k == First(pub[p].todo)
              rest == pub[p].todo \ {k}
              now == [pub[p] EXCEPT !.inserted = @ + 1, !.added = @ + 1, !.todo = rest]
          IN  /\ uniqueKey => ~KeyLocked(p, pub[p].ds, k)
              /\ IF uniqueKey /\ KeyTaken(p, pub[p].ds, k)
                 THEN P_Throw(p, "conflict") /\ UNCHANGED store
                 ELSE /\ store' = store \cup PubRows(pub[p].ds, {k}, p)
                      /\ pub' = [pub EXCEPT ![p] =
                                   IF rest = {}
                                   THEN [now EXCEPT !.pc = "done", !.status = 200,
                                                    !.label = "published", !.open = FALSE]
                                   ELSE now]
    /\ PubFrame

PubInit ==
    /\ AskInit
    /\ docs = <<>>
    /\ prompt = NoPrompt
    /\ limits = NoLimits
    /\ \E S \in SUBSET PubPks : store = PubRows("ds1", S, 0) \cup PubRows("ds2", {1}, 0)
    /\ pub = [p \in Procs |-> IdlePub]
    /\ uniqueKey \in BOOLEAN

PubNext ==
    \/ \E p \in Procs : E_Receive(p)
    \/ \E p \in Procs : E_Pull(p)
    \/ \E p \in Procs : E_Embed(p)
    \/ \E p \in Procs : E_DeleteStart(p)
    \/ \E p \in Procs : E_DeleteFinish(p)
    \/ \E p \in Procs : E_Insert(p)
    \/ \E p \in Procs : E_Commit(p)
    \/ \E p \in Procs : D_Call(p)
    \/ \E p \in Procs : D_Pull(p)
    \/ \E p \in Procs : D_Embed(p)
    \/ \E p \in Procs : D_Insert(p)
    \/ \E p \in Procs : D_Commit(p)
    \/ \E p \in Procs : H_Receive(p)
    \/ \E p \in Procs : H_Connect(p)
    \/ \E p \in Procs : H_Pull(p)
    \/ \E p \in Procs : H_Embed(p)
    \/ \E p \in Procs : H_Insert(p)
    \/ \E p \in Procs : P_Receive(p)
    \/ \E p \in Procs : P_Connect(p)
    \/ \E p \in Procs : P_Pull(p)
    \/ \E p \in Procs : P_Embed(p)
    \/ \E p \in Procs : P_Insert(p)

PublishSpec == PubInit /\ [][PubNext]_vars

(***************************************************************************)
(* C27: publishEmbeddings with truncate is all or nothing for the dataset. *)
(* With no other publish under way, a call that returned left the table    *)
(* with exactly the newly built chunks as the rows of the dataset, a call  *)
(* that threw left it with exactly the rows from before the call, and the  *)
(* rows of other datasets are as before in both cases.                     *)
(***************************************************************************)
C27_TruncatePublishAllOrNothing ==
    \A p \in Procs :
        (pub[p].kind = "E" /\ pub[p].pc = "done" /\ pub[Other(p)].pc = "idle") =>
            IF pub[p].status = 200
            THEN store = (pub[p].before \ OfDataset(pub[p].before, pub[p].ds))
                            \cup PubRows(pub[p].ds, pub[p].chunks, p)
            ELSE store = pub[p].before

\* a call that failed at COMMIT, after it had deleted old rows and inserted
\* new ones
C27_Witness ==
    \E p \in Procs :
        /\ pub[p].kind = "E" /\ pub[p].pc = "done" /\ pub[Other(p)].pc = "idle"
        /\ pub[p].failedAt = "commit"
        /\ pub[p].target # {}
        /\ pub[p].chunks # {}
        /\ pub[p].chunks # {r.pk : r \in pub[p].target}

(***************************************************************************)
(* C28: two publish requests for the same dataset that run with truncate   *)
(* and have both ended, at least one of them with success, leave the       *)
(* dataset with the rows of exactly one of them: not the union of both,    *)
(* no (dataset_id, pk) twice, and not empty when that publish had rows.    *)
(***************************************************************************)
BothPublished ==
    /\ \A p \in Procs : pub[p].kind = "E" /\ pub[p].pc = "done"
    /\ pub[1].ds = pub[2].ds
    /\ \E p \in Procs : pub[p].status = 200

C28_ConcurrentPublishesLeaveOne ==
    BothPublished =>
        \E p \in Procs :
            /\ pub[p].status = 200
            /\ OfDataset(store, pub[p].ds) = PubRows(pub[p].ds, pub[p].chunks, p)

(***************************************************************************)
(* C29: the inserted count a publish reports is the number of rows it      *)
(* added to the table; a publish of rows whose (dataset_id, pk) are all    *)
(* stored already reports inserted = 0 and the status "no-new-rows".       *)
(***************************************************************************)
AllStoredBefore(p) ==
    /\ pub[p].chunks # {}
    /\ \A k \in pub[p].chunks :
          \E r \in pub[p].before : r.dataset_id = pub[p].ds /\ r.pk = k

C29_InsertedCountsAddedRows ==
    \A p \in Procs :
        (pub[p].kind \in {"E", "D", "H"} /\ pub[p].pc = "done" /\ pub[p].status = 200) =>
            /\ pub[p].inserted = pub[p].added
            /\ AllStoredBefore(p) =>
                  /\ pub[p].inserted = 0
                  /\ pub[p].kind # "D" => pub[p].label = "no-new-rows"

(***************************************************************************)
(* C30: the Postgres client a publish request opens is closed on every way *)
(* out of the handler (no rows, success, dataset not found, embedding      *)
(* failure, insert failure): a request that has ended has no open client.  *)
(***************************************************************************)
C30_ClientClosedOnEveryExit ==
    \A p \in Procs : pub[p].pc = "done" => ~pub[p].open

=============================================================================
